---- MODULE Spec2Model ----
(***************************************************************************)
(* Model of package grammar (gaissmai/grammar): a Grammar is a set of      *)
(* named regexp rules; Add/AddVerbatim store rules, Compile resolves the   *)
(* ${SUBRULE} dependencies (toposort), interpolates and compiles every     *)
(* rule, Rx returns a compiled rule.                                       *)
(*                                                                         *)
(* Strings are sequences of one-character strings, so that trimming,       *)
(* placeholder scanning and literal replacement are computed character by  *)
(* character as the regexps of the source do.                              *)
(***************************************************************************)
EXTENDS Integers, Sequences, FiniteSets, TLC

\* ------------------------------------------------------------------ bounds

\* how many of the pattern texts of PatternPool clients pass to Add and
\* AddVerbatim
MaxPatterns == 7

\* the longest text a client passes to Trim
MaxTrimLen == 4

\* ------------------------------------------------------------- characters

Letters == {"A", "B", "C", "x"}
Digits == {"1"}
\* \s of Go's regexp: [\t\n\f\r ]
Spaces == {" ", "\t", "\n", "\f", "\r"}

\* the rule names clients use: three identifiers, and one name that is no
\* identifier (it starts with a digit)
ValidNames == {<<"A">>, <<"B">>, <<"C">>}
BadName == <<"1">>
CallNames == ValidNames \cup {BadName}

\* ${NAME}
Placeholder(name) == <<"$", "{">> \o name \o <<"}">>

\* The pattern texts clients pass to Add and AddVerbatim: a literal, rules
\* with one, two and repeated placeholders (which, under the names A, B and
\* C, can form chains, cycles, self references and references to missing
\* rules), a placeholder whose name is no identifier, and a text with
\* whitespace and a comment (trimmed: x; verbatim: an unbalanced
\* parenthesis).
PatternPool ==
  << <<"{", "B", "}">>,
     <<"$">> \o Placeholder(<<"B">>),
     Placeholder(<<"A">>) \o Placeholder(<<"B">>),
     Placeholder(<<"C">>),
     Placeholder(<<"A">>) \o Placeholder(<<"A">>),
     Placeholder(<<"A">>) \o Placeholder(<<"1">>),
     <<"x", " ", "/", "/", "(">>,
     <<"(">>,
     <<"/", " ", "/", "(", "\n", ")">> >>

Patterns == {PatternPool[i] : i \in 1..MaxPatterns}

\* The texts clients pass to Trim: all texts of up to MaxTrimLen characters
\* made of the two characters of the comment mark, a blank, a newline and
\* one other character.
TrimChars == {"/", " ", "\n", "x"}
TrimInputs == UNION {[1..n -> TrimChars] : n \in 0..MaxTrimLen}

\* ------------------------------------------------------ pure string helpers

\* isValid: rxMatchSubRuleStrict, ^[a-zA-Z_]\w*$
isValid(name) ==
  /\ Len(name) >= 1
  /\ name[1] \in Letters \cup {"_"}
  /\ \A i \in 2..Len(name) : name[i] \in Letters \cup Digits \cup {"_"}

\* first index >= i of s holding a character of set cs, or Len(s)+1
RECURSIVE IndexFrom(_, _, _)
IndexFrom(s, i, cs) ==
  IF i > Len(s) THEN Len(s) + 1
  ELSE IF s[i] \in cs THEN i
  ELSE IndexFrom(s, i + 1, cs)

\* rxComment.ReplaceAllString(s, ""): (?m://.*$) deletes each // up to, not
\* including, the end of its line
RECURSIVE StripCommentsFrom(_, _)
StripCommentsFrom(s, i) ==
  IF i > Len(s) THEN <<>>
  ELSE IF s[i] = "/" /\ i + 1 <= Len(s) /\ s[i + 1] = "/"
       THEN StripCommentsFrom(s, IndexFrom(s, i, {"\n"}))
       ELSE <<s[i]>> \o StripCommentsFrom(s, i + 1)

\* rxSpaces.ReplaceAllString(s, ""): \s+ deletes every whitespace character
StripSpaces(s) == SelectSeq(s, LAMBDA c : c \notin Spaces)

Trim(s) == StripSpaces(StripCommentsFrom(s, 1))

\* rxGrepSubRuleRelaxed, \$\{(?P<SUBRULE>[^{}]+)\}: the index of the closing
\* brace of a match starting at i, or 0 when there is no match at i
MatchEnd(s, i) ==
  IF /\ i + 1 <= Len(s)
     /\ s[i] = "$"
     /\ s[i + 1] = "{"
  THEN LET j == IndexFrom(s, i + 2, {"{", "}"})
       IN IF j <= Len(s) /\ s[j] = "}" /\ j > i + 2 THEN j ELSE 0
  ELSE 0

\* FindAllStringSubmatch: leftmost, non-overlapping matches, in text order
RECURSIVE findSubrulesFrom(_, _)
findSubrulesFrom(s, i) ==
  IF i > Len(s) THEN <<>>
  ELSE LET e == MatchEnd(s, i)
       IN IF e = 0 THEN findSubrulesFrom(s, i + 1)
          ELSE <<SubSeq(s, i + 2, e - 1)>> \o findSubrulesFrom(s, e + 1)

findSubrules(pattern) == findSubrulesFrom(pattern, 1)

\* rx.ReplaceAllLiteralString(s, final) for rx = \Q${subrule}\E: every
\* leftmost, non-overlapping occurrence of tok in s becomes rep; rep is
\* inserted as it is
RECURSIVE ReplaceAllFrom(_, _, _, _)
ReplaceAllFrom(s, i, tok, rep) ==
  IF i > Len(s) THEN <<>>
  ELSE IF i + Len(tok) - 1 <= Len(s) /\ SubSeq(s, i, i + Len(tok) - 1) = tok
       THEN rep \o ReplaceAllFrom(s, i + Len(tok), tok, rep)
       ELSE <<s[i]>> \o ReplaceAllFrom(s, i + 1, tok, rep)

ReplaceAllLiteralString(s, tok, rep) == ReplaceAllFrom(s, 1, tok, rep)

\* regexp.Compile accepts the text: of the syntax errors of the engine, the
\* model has the unbalanced parenthesis (missing closing or opening one)
RECURSIVE ParenDepth(_, _, _)
ParenDepth(s, i, d) ==
  IF d < 0 THEN d
  ELSE IF i > Len(s) THEN d
  ELSE ParenDepth(s, i + 1, IF s[i] = "(" THEN d + 1
                            ELSE IF s[i] = ")" THEN d - 1 ELSE d)

RegexpCompiles(s) == ParenDepth(s, 1, 0) = 0

\* the orders in which a range over a Go map with key set K may yield K
RECURSIVE Orders(_)
Orders(K) ==
  IF K = {} THEN {<<>>}
  ELSE UNION {{<<k>> \o o : o \in Orders(K \ {k})} : k \in K}

Range(q) == {q[i] : i \in 1..Len(q)}

\* ------------------------------------------------------------------- state

VARIABLES
  rules,     \* Grammar.rules: map ruleName -> rule
  compiled,  \* Grammar.compiled
  pc,        \* where the client is: "idle" (no call running), or inside
             \* Compile at "toposort" or "compile"
  dag,       \* toposort's dag: node -> set of links
  result,    \* toposort's result so far
  sorted,    \* Compile's sorted, the order toposort returned
  idx,       \* Compile's position in sorted
  last,      \* the last call, its arguments and what it returned
  history,   \* what the calls of Compile have returned so far (a set)
  threads,   \* per goroutine that calls Rx beside others: where it is in
             \* Rx, and its call
  rounds     \* toposort's loop: the iterations begun so far that found nodes
             \* left in dag

vars == <<rules, compiled, pc, dag, result, sorted, idx, last, history,
          threads, rounds>>

\* a nil *regexp.Regexp, and the one regexp.Compile returns for text src
NilRx == [isNil |-> TRUE, src |-> <<>>]
CompiledRx(src) == [isNil |-> FALSE, src |-> src]

NoRules == [n \in {} |-> NilRx]
NoDag == [n \in {} |-> {}]

\* What a call returned, err being "nil" or the kind of the error:
\*   add:     "InvalidName" (rulename not allowed), "AlreadyCompiled",
\*            "DuplicateName" (already exists), "InvalidSubruleName" (wrong
\*            subrule name), "SelfReference" (is self referencing)
\*   Compile: "AlreadyCompiled", "MissingRule" (depends on missing subrule),
\*            "CyclicDependency" (toposort's error), "PatternSyntaxError"
\*            (regexp compilation of rule), "panic" (logic error, rule is
\*            already compiled), and "running" while the call has not returned
\*   Rx:      "UnknownRule" (is not added), "NotCompiled"; ret is the regexp
\* about is what the text of an error of Compile names: the rule and its
\* missing subrule, the remaining rules of toposort, the rule rejected by
\* regexp.Compile
Call(op, name, pattern, err, ret) ==
  [op |-> op, name |-> name, pattern |-> pattern, err |-> err, ret |-> ret,
   about |-> <<>>]

\* the goroutines that call Rx concurrently once the grammar is compiled
Threads == {"t1", "t2"}

\* a goroutine that is in no call of Rx and has made none
NoCall == [pc |-> "idle", call |-> Call("none", <<>>, <<>>, "nil", NilRx)]

\* New
Init ==
  /\ rules = NoRules
  /\ compiled = FALSE
  /\ pc = "idle"
  /\ dag = NoDag
  /\ result = <<>>
  /\ sorted = <<>>
  /\ idx = 0
  /\ last = Call("New", <<>>, <<>>, "nil", NilRx)
  /\ history = {}
  /\ threads = [t \in Threads |-> NoCall]
  /\ rounds = 0

\* --------------------------------------------------------- Add, AddVerbatim

\* mutant: all subrule names are validated before any is compared with name
subruleError_ValidateAllFirst(name, subrules, i) ==
  IF \E k \in i..Len(subrules) : ~isValid(subrules[k]) THEN "InvalidSubruleName"
  ELSE IF \E k \in i..Len(subrules) : subrules[k] = name THEN "SelfReference"
  ELSE "nil"

\* mutant: add does not compare the subrule names with the rule name
subruleError_NoSelfCheck(name, subrules, i) ==
  IF \E k \in i..Len(subrules) : ~isValid(subrules[k]) THEN "InvalidSubruleName"
  ELSE "nil"

\* the loop of add over r.subrules: the first error, in text order
RECURSIVE subruleError(_, _, _)
subruleError(name, subrules, i) ==
  IF i > Len(subrules) THEN "nil"
  ELSE IF ~isValid(subrules[i]) THEN "InvalidSubruleName"
  ELSE IF subrules[i] = name THEN "SelfReference"
  ELSE subruleError(name, subrules, i + 1)

\* mutant: add does not look at g.compiled
addError_NoCompiledCheck(name, pattern) ==
  IF ~isValid(name) THEN "InvalidName"
  ELSE IF name \in DOMAIN rules THEN "DuplicateName"
  ELSE subruleError(name, findSubrules(pattern), 1)

\* what add returns in the current state
addError(name, pattern) ==
  IF ~isValid(name) THEN "InvalidName"
  ELSE IF compiled THEN "AlreadyCompiled"
  ELSE IF name \in DOMAIN rules THEN "DuplicateName"
  ELSE subruleError(name, findSubrules(pattern), 1)

newRule(name, pattern) ==
  [name |-> name, subrules |-> findSubrules(pattern), pattern |-> pattern,
   final |-> <<>>, rx |-> NilRx]

\* mutant: the rule is stored before its subrules are checked
add_StoreBeforeSubruleCheck(op, name, given, pattern) ==
  /\ pc = "idle"
  /\ LET err == addError(name, pattern)
     IN /\ rules' = IF err \in {"nil", "InvalidSubruleName", "SelfReference"}
                    THEN (name :> newRule(name, pattern)) @@ rules
                    ELSE rules
        /\ last' = Call(op, name, given, err, NilRx)
  /\ UNCHANGED <<compiled, pc, dag, result, sorted, idx, history, threads,
                 rounds>>

\* add(ruleName, pattern), called by op with the client's text given
add(op, name, given, pattern) ==
  /\ pc = "idle"
  /\ LET err == addError(name, pattern)
     IN /\ rules' = IF err = "nil"
                    THEN (name :> newRule(name, pattern)) @@ rules
                    ELSE rules
        /\ last' = Call(op, name, given, err, NilRx)
  /\ UNCHANGED <<compiled, pc, dag, result, sorted, idx, history, threads,
                 rounds>>

\* mutant: Add stores the pattern as it is given
Add_NoTrim ==
  \E name \in CallNames, pattern \in Patterns :
    add("Add", name, pattern, pattern)

Add ==
  \E name \in CallNames, pattern \in Patterns :
    add("Add", name, pattern, Trim(pattern))

AddVerbatim ==
  \E name \in CallNames, pattern \in Patterns :
    add("AddVerbatim", name, pattern, pattern)

\* ------------------------------------------------------------------ Compile

\* some rule has a subrule that is no rule of the grammar
missingSubrule ==
  \E n \in DOMAIN rules :
    \E i \in 1..Len(rules[n].subrules) : rules[n].subrules[i] \notin DOMAIN rules

\* Compile returns error err, whose text names the rules about (or panics,
\* err = "panic"): its locals are gone
CompileFails(err, about) ==
  /\ pc' = "idle"
  /\ dag' = NoDag
  /\ result' = <<>>
  /\ sorted' = <<>>
  /\ idx' = 0
  /\ last' = [Call("Compile", <<>>, <<>>, err, NilRx) EXCEPT !.about = about]
  /\ history' = history \cup {err}
  /\ rounds' = 0
  /\ UNCHANGED threads

\* Compile returns err, which names no rule
CompileReturns(err) == CompileFails(err, <<>>)

\* the first subrule of rule n, in the order of its subrule list, that is no
\* rule of the grammar
firstMissing(n) ==
  LET missing == {i \in 1..Len(rules[n].subrules) :
                    rules[n].subrules[i] \notin DOMAIN rules}
  IN rules[n].subrules[CHOOSE i \in missing : \A j \in missing : i <= j]

\* Compile's loop over g.rules returns at the first rule, in the order of the
\* map, that has a missing subrule
missingRuleError ==
  \E n \in DOMAIN rules :
    /\ \E i \in 1..Len(rules[n].subrules) : rules[n].subrules[i] \notin DOMAIN rules
    /\ CompileFails("MissingRule", <<n, firstMissing(n)>>)
    /\ UNCHANGED <<rules, compiled>>

\* mutant: Compile does not look at g.compiled
Compile_NoCompiledCheck ==
  /\ pc = "idle"
  /\ IF missingSubrule
     THEN missingRuleError
     ELSE /\ pc' = "toposort"
          /\ dag' = [n \in DOMAIN rules |-> Range(rules[n].subrules)]
          /\ result' = <<>>
          /\ last' = Call("Compile", <<>>, <<>>, "running", NilRx)
          /\ UNCHANGED <<rules, compiled, sorted, idx, history, threads,
                         rounds>>

\* Compile up to the call of toposort, and toposort's building of the dag
Compile ==
  /\ pc = "idle"
  /\ IF compiled
     THEN CompileReturns("AlreadyCompiled") /\ UNCHANGED <<rules, compiled>>
     ELSE IF missingSubrule
     THEN missingRuleError
     ELSE /\ pc' = "toposort"
          /\ dag' = [n \in DOMAIN rules |-> Range(rules[n].subrules)]
          /\ result' = <<>>
          /\ last' = Call("Compile", <<>>, <<>>, "running", NilRx)
          /\ UNCHANGED <<rules, compiled, sorted, idx, history, threads,
                         rounds>>

\* mutant: a node with one link left counts as terminal
nodesWithoutLinks_OneLeft(topo) ==
  {n \in DOMAIN topo : Cardinality(topo[n]) <= 1}

\* mutant: every node counts as terminal
nodesWithoutLinks_All(topo) == DOMAIN topo

nodesWithoutLinks(topo) == {n \in DOMAIN topo : topo[n] = {}}

\* mutant: the error of toposort names all rules of the grammar
toposortStep_ReportsAllRules ==
  /\ pc = "toposort"
  /\ IF DOMAIN dag = {}
     THEN \* return result, nil: Compile goes on with sorted
          /\ pc' = "compile"
          /\ sorted' = result
          /\ idx' = 1
          /\ dag' = NoDag
          /\ result' = <<>>
          /\ rounds' = 0
          /\ UNCHANGED <<rules, compiled, last, history, threads>>
     ELSE LET nextNodes == nodesWithoutLinks(dag)
          IN IF nextNodes = {}
             THEN \E remaining \in Orders(DOMAIN rules) :
                    /\ CompileFails("CyclicDependency", remaining)
                    /\ UNCHANGED <<rules, compiled>>
             ELSE \E order \in Orders(nextNodes) :
                    /\ result' = result \o order
                    /\ dag' = [n \in DOMAIN dag \ nextNodes |-> dag[n] \ nextNodes]
                    /\ rounds' = rounds + 1
                    /\ UNCHANGED <<rules, compiled, pc, sorted, idx, last, history,
                                   threads>>

\* mutant: the terminal nodes are taken out of the links, not out of dag
toposortStep_KeepsNodes ==
  /\ pc = "toposort"
  /\ IF DOMAIN dag = {}
     THEN \* return result, nil: Compile goes on with sorted
          /\ pc' = "compile"
          /\ sorted' = result
          /\ idx' = 1
          /\ dag' = NoDag
          /\ result' = <<>>
          /\ rounds' = 0
          /\ UNCHANGED <<rules, compiled, last, history, threads>>
     ELSE LET nextNodes == nodesWithoutLinks(dag)
          IN IF nextNodes = {}
             THEN \* remaining: the nodes left in dag, in the order of the map
                  \E remaining \in Orders(DOMAIN dag) :
                    /\ CompileFails("CyclicDependency", remaining)
                    /\ UNCHANGED <<rules, compiled>>
             ELSE \E order \in Orders(nextNodes) :
                    /\ result' = result \o order
                    /\ dag' = [n \in DOMAIN dag |-> dag[n] \ nextNodes]
                    /\ rounds' = rounds + 1
                    /\ UNCHANGED <<rules, compiled, pc, sorted, idx, last, history,
                                   threads>>

\* one iteration of toposort's loop
toposortStep ==
  /\ pc = "toposort"
  /\ IF DOMAIN dag = {}
     THEN \* return result, nil: Compile goes on with sorted
          /\ pc' = "compile"
          /\ sorted' = result
          /\ idx' = 1
          /\ dag' = NoDag
          /\ result' = <<>>
          /\ rounds' = 0
          /\ UNCHANGED <<rules, compiled, last, history, threads>>
     ELSE LET nextNodes == nodesWithoutLinks(dag)
          IN IF nextNodes = {}
             THEN \* remaining: the nodes left in dag, in the order of the map
                  \E remaining \in Orders(DOMAIN dag) :
                    /\ CompileFails("CyclicDependency", remaining)
                    /\ UNCHANGED <<rules, compiled>>
             ELSE \E order \in Orders(nextNodes) :
                    /\ result' = result \o order
                    /\ dag' = [n \in DOMAIN dag \ nextNodes |-> dag[n] \ nextNodes]
                    /\ rounds' = rounds + 1
                    /\ UNCHANGED <<rules, compiled, pc, sorted, idx, last, history,
                                   threads>>

\* the loop of rule.compile over replace, its keys ranged over in order
RECURSIVE replaceSubrules(_, _, _, _)
replaceSubrules(s, replace, order, k) ==
  IF k > Len(order) THEN s
  ELSE replaceSubrules(
         ReplaceAllLiteralString(s, Placeholder(order[k]), replace[order[k]]),
         replace, order, k + 1)

\* mutant: g.compiled is set although rule.compile returned an error
compileStep_CompiledOnError ==
  /\ pc = "compile"
  /\ IF idx > Len(sorted)
     THEN /\ compiled' = TRUE
          /\ CompileReturns("nil")
          /\ UNCHANGED rules
     ELSE LET name == sorted[idx]
              r == rules[name]
              replace == [k \in Range(r.subrules) |-> rules[k].final]
          IN IF ~r.rx.isNil
             THEN /\ CompileReturns("panic")
                  /\ UNCHANGED <<rules, compiled>>
             ELSE \E order \in Orders(DOMAIN replace) :
                    LET final == replaceSubrules(r.pattern, replace, order, 1)
                    IN IF RegexpCompiles(final)
                       THEN /\ rules' = [rules EXCEPT ![name].final = final,
                                                      ![name].rx = CompiledRx(final)]
                            /\ idx' = idx + 1
                            /\ UNCHANGED <<compiled, pc, dag, result, sorted, last,
                                           history, threads,
                                           rounds>>
                       ELSE /\ rules' = [rules EXCEPT ![name].final = final,
                                                      ![name].rx = NilRx]
                            /\ CompileFails("PatternSyntaxError", <<r.name>>)
                            /\ compiled' = TRUE

\* one iteration of Compile's loop over sorted: build replace, rule.compile
compileStep ==
  /\ pc = "compile"
  /\ IF idx > Len(sorted)
     THEN /\ compiled' = TRUE
          /\ CompileReturns("nil")
          /\ UNCHANGED rules
     ELSE LET name == sorted[idx]
              r == rules[name]
              replace == [k \in Range(r.subrules) |-> rules[k].final]
          IN IF ~r.rx.isNil
             THEN \* panic("logic error, rule is already compiled"): the
                  \* panic unwinds Compile; a client that recovers goes on
                  /\ CompileReturns("panic")
                  /\ UNCHANGED <<rules, compiled>>
             ELSE \E order \in Orders(DOMAIN replace) :
                    LET final == replaceSubrules(r.pattern, replace, order, 1)
                    IN IF RegexpCompiles(final)
                       THEN /\ rules' = [rules EXCEPT ![name].final = final,
                                                      ![name].rx = CompiledRx(final)]
                            /\ idx' = idx + 1
                            /\ UNCHANGED <<compiled, pc, dag, result, sorted, last,
                                           history, threads,
                                           rounds>>
                       ELSE /\ rules' = [rules EXCEPT ![name].final = final,
                                                      ![name].rx = NilRx]
                            /\ CompileFails("PatternSyntaxError", <<r.name>>)
                            /\ UNCHANGED compiled

\* ----------------------------------------------------------------------- Rx

\* mutant: Rx does not look at g.compiled
RxReturns_NoCompiledCheck(name) ==
  IF name \notin DOMAIN rules
  THEN Call("Rx", name, <<>>, "UnknownRule", NilRx)
  ELSE Call("Rx", name, <<>>, "nil", rules[name].rx)

\* what Rx(name) returns in the current state
RxReturns(name) ==
  IF name \notin DOMAIN rules
  THEN Call("Rx", name, <<>>, "UnknownRule", NilRx)
  ELSE IF ~compiled
  THEN Call("Rx", name, <<>>, "NotCompiled", NilRx)
  ELSE Call("Rx", name, <<>>, "nil", rules[name].rx)

\* a call of Rx by the goroutine that builds the grammar
Rx ==
  /\ pc = "idle"
  /\ \E name \in CallNames : last' = RxReturns(name)
  /\ UNCHANGED <<rules, compiled, pc, dag, result, sorted, idx, history, threads,
                 rounds>>

Next == Add \/ AddVerbatim \/ Compile \/ toposortStep \/ compileStep \/ Rx

Spec == Init /\ [][Next]_vars

\* A call of Compile that has begun goes on: the goroutine that runs it takes
\* the next iteration of toposort's loop and of Compile's loop.
SpecFair == Spec /\ WF_vars(toposortStep) /\ WF_vars(compileStep)

\* ------------------------------------------- Rx, called by several goroutines

\* goroutine t calls Rx(name)
RxCall(t) ==
  /\ threads[t].pc = "idle"
  /\ \E name \in CallNames :
       threads' = [threads EXCEPT ![t] =
                     [pc |-> "lookup",
                      call |-> Call("Rx", name, <<>>, "running", NilRx)]]
  /\ UNCHANGED <<rules, compiled, pc, dag, result, sorted, idx, last, history,
                 rounds>>

\* r, ok := g.rules[ruleName(name)], and the return when !ok
RxLookup(t) ==
  /\ threads[t].pc = "lookup"
  /\ threads' = [threads EXCEPT ![t] =
                   IF @.call.name \notin DOMAIN rules
                   THEN [pc |-> "idle",
                         call |-> [@.call EXCEPT !.err = "UnknownRule"]]
                   ELSE [@ EXCEPT !.pc = "compiled"]]
  /\ UNCHANGED <<rules, compiled, pc, dag, result, sorted, idx, last, history,
                 rounds>>

\* if !g.compiled, and the return when it is not
RxCompiled(t) ==
  /\ threads[t].pc = "compiled"
  /\ threads' = [threads EXCEPT ![t] =
                   IF ~compiled
                   THEN [pc |-> "idle",
                         call |-> [@.call EXCEPT !.err = "NotCompiled"]]
                   ELSE [@ EXCEPT !.pc = "return"]]
  /\ UNCHANGED <<rules, compiled, pc, dag, result, sorted, idx, last, history,
                 rounds>>

\* mutant: Rx hands the regexp over and forgets it
RxReturn_ForgetsRx(t) ==
  /\ threads[t].pc = "return"
  /\ threads' = [threads EXCEPT ![t] =
                   [pc |-> "idle",
                    call |-> [@.call EXCEPT !.err = "nil",
                                            !.ret = rules[threads[t].call.name].rx]]]
  /\ rules' = [rules EXCEPT ![threads[t].call.name].rx = NilRx]
  /\ UNCHANGED <<compiled, pc, dag, result, sorted, idx, last, history,
                 rounds>>

\* return r.rx, nil
RxReturn(t) ==
  /\ threads[t].pc = "return"
  /\ threads' = [threads EXCEPT ![t] =
                   [pc |-> "idle",
                    call |-> [@.call EXCEPT !.err = "nil",
                                            !.ret = rules[threads[t].call.name].rx]]]
  /\ UNCHANGED <<rules, compiled, pc, dag, result, sorted, idx, last, history,
                 rounds>>

\* One goroutine builds the grammar and calls Compile until it succeeds;
\* after that the goroutines of Threads call Rx, each step of one call
\* interleaved with the steps of the others.
NextRx ==
  \/ ~compiled /\ Add
  \/ ~compiled /\ AddVerbatim
  \/ ~compiled /\ Compile
  \/ toposortStep
  \/ compileStep
  \/ ~compiled /\ Rx
  \/ compiled /\ \E t \in Threads : RxCall(t)
  \/ \E t \in Threads : RxLookup(t)
  \/ \E t \in Threads : RxCompiled(t)
  \/ \E t \in Threads : RxReturn(t)

SpecRx == Init /\ [][NextRx]_vars

\* --------------------------------------------------------------------- Trim

\* A client of the function Trim alone: it holds a text and calls Trim on
\* the text it holds, which then is what Trim returned.
TrimInit ==
  /\ rules = NoRules
  /\ compiled = FALSE
  /\ pc = "idle"
  /\ dag = NoDag
  /\ result = <<>>
  /\ sorted = <<>>
  /\ idx = 0
  /\ \E s \in TrimInputs : last = Call("text", <<>>, <<>>, "nil", s)
  /\ history = {}
  /\ threads = [t \in Threads |-> NoCall]
  /\ rounds = 0

\* Trim(last.ret)
TrimCall ==
  /\ last' = Call("Trim", <<>>, last.ret, "nil", Trim(last.ret))
  /\ UNCHANGED <<rules, compiled, pc, dag, result, sorted, idx, history, threads,
                 rounds>>

SpecTrim == TrimInit /\ [][TrimCall]_vars

\* ------------------------------------------------- the dependency graph

\* the rules that rule n references
Refs(n) == Range(rules[n].subrules)

RECURSIVE ReachFrom(_, _)
ReachFrom(S, k) ==
  IF k = 0 THEN S
  ELSE ReachFrom(S \cup UNION {Refs(m) : m \in S \cap DOMAIN rules}, k - 1)

\* the names rule n reaches through one reference or more
Reachable(n) == ReachFrom(Refs(n), Cardinality(DOMAIN rules))

\* the graph rule -> referenced subrule has a cycle
HasCycle == \E n \in DOMAIN rules : n \in Reachable(n)

AddOps == {"Add", "AddVerbatim"}

\* a call of Compile has returned (or panicked) and nothing was called since
CompileReturned == last.op = "Compile" /\ pc = "idle"

\* no rule has an expanded text or a compiled form
NothingCompiled ==
  \A n \in DOMAIN rules : rules[n].final = <<>> /\ rules[n].rx.isNil

\* t occurs in s
IsSubstring(t, s) ==
  \E i \in 1..(Len(s) - Len(t) + 1) : SubSeq(s, i, i + Len(t) - 1) = t

\* ------------------------------------------------------------------ claims

\* C1: when toposort has returned an order to Compile, the order holds every
\* stored rule exactly once and every rule comes strictly after each rule it
\* references; so each rule that Compile has reached in the order has
\* subrules that were interpolated and compiled before it.
C1_ToposortOrder ==
  pc = "compile" =>
    /\ Range(sorted) = DOMAIN rules
    /\ Len(sorted) = Cardinality(DOMAIN rules)
    /\ \A i \in 1..Len(sorted) :
         Refs(sorted[i]) \subseteq {sorted[j] : j \in 1..(i - 1)}
    /\ \A i \in 1..Len(sorted) :
         i <= idx =>
           \A k \in Refs(sorted[i]) :
             ~rules[k].rx.isNil /\ rules[k].rx.src = rules[k].final

\* Compile is about to interpolate the last of three rules, which has two
\* subrules
C1_Witness ==
  /\ pc = "compile"
  /\ Len(sorted) = 3
  /\ idx = 3
  /\ Cardinality(Refs(sorted[3])) = 2
  /\ rules[sorted[3]].rx.isNil

\* C2: when every referenced subrule exists, Compile returns the cyclic
\* dependency error exactly if the graph rule -> subrule has a cycle, and after
\* that error no rule has an expanded text or a compiled form and the grammar
\* is not compiled.
C2_CyclicIffCycle ==
  (CompileReturned /\ ~missingSubrule) =>
    /\ (last.err = "CyclicDependency") <=> HasCycle
    /\ last.err = "CyclicDependency" => (~compiled /\ NothingCompiled)

\* the first part of C2 alone: the error is returned exactly for a cycle, and
\* the grammar is then not compiled
C2_ErrorIffCycle ==
  (CompileReturned /\ ~missingSubrule) =>
    /\ (last.err = "CyclicDependency") <=> HasCycle
    /\ last.err = "CyclicDependency" => ~compiled

\* C3: when a stored rule references a name that is no stored rule, Compile
\* returns MissingRule (also when there is a cycle or a pattern the engine
\* rejects), and after it no rule has an expanded text or a compiled form and
\* the grammar is not compiled.
C3_MissingRuleFirst ==
  (CompileReturned /\ missingSubrule) =>
    /\ last.err = "MissingRule"
    /\ ~compiled
    /\ NothingCompiled

\* the first part of C3 alone
C3_MissingRuleReturned ==
  (CompileReturned /\ missingSubrule) => (last.err = "MissingRule" /\ ~compiled)

\* pattern s from index i on, each placeholder ${NAME} with NAME in the
\* domain of finals replaced by finals[NAME] in one pass from left to right,
\* the inserted text not looked at again
RECURSIVE ExpandFrom(_, _, _)
ExpandFrom(s, i, finals) ==
  IF i > Len(s) THEN <<>>
  ELSE LET e == MatchEnd(s, i)
       IN IF e # 0 /\ SubSeq(s, i + 2, e - 1) \in DOMAIN finals
          THEN finals[SubSeq(s, i + 2, e - 1)] \o ExpandFrom(s, e + 1, finals)
          ELSE <<s[i]>> \o ExpandFrom(s, i + 1, finals)

\* C4: after a successful Compile the expanded text of every rule is its
\* pattern with every occurrence of the placeholder of each direct subrule
\* replaced by that subrule's expanded text, and nothing else changed.
C4_ExpandedText ==
  compiled =>
    \A n \in DOMAIN rules :
      rules[n].final =
        ExpandFrom(rules[n].pattern, 1, [k \in Refs(n) |-> rules[k].final])

\* C5: when rule r references a and b and the expanded text of a contains
\* ${b}, the expanded text of a stays literally in the expanded text of r
\* (its ${b} is not replaced), in whatever order the placeholders of r are
\* processed.
C5_InsertedTextNotRescanned ==
  compiled =>
    \A r \in DOMAIN rules :
      \A a \in Refs(r), b \in Refs(r) :
        IsSubstring(Placeholder(b), rules[a].final) =>
          IsSubstring(rules[a].final, rules[r].final)

\* the text add is given by the call: Add trims the client's pattern
GivenToAdd(call) ==
  IF call.op = "Add" THEN Trim(call.pattern) ELSE call.pattern

\* the position in refs of the first reference that is no identifier or is
\* name itself, 0 when there is none
FirstRejected(name, refs) ==
  LET bad == {i \in 1..Len(refs) : ~isValid(refs[i]) \/ refs[i] = name}
  IN IF bad = {} THEN 0 ELSE CHOOSE i \in bad : \A j \in bad : i <= j

\* what C6 says a call of Add or AddVerbatim returns, from the state before it
ClaimedAddResult(name, text) ==
  LET refs == findSubrules(text)
      f == FirstRejected(name, refs)
  IN IF ~isValid(name) THEN "InvalidName"
     ELSE IF compiled THEN "AlreadyCompiled"
     ELSE IF name \in DOMAIN rules THEN "DuplicateName"
     ELSE IF f = 0 THEN "nil"
     ELSE IF ~isValid(refs[f]) THEN "InvalidSubruleName"
     ELSE "SelfReference"

\* C6: Add/AddVerbatim(name, pattern) succeeds exactly if name is an
\* identifier, the grammar is not compiled, name is not stored, and every
\* placeholder name of the (for Add: trimmed) pattern is an identifier other
\* than name; otherwise it returns the first error in the order InvalidName,
\* AlreadyCompiled, DuplicateName, then per reference in text order
\* InvalidSubruleName before SelfReference.
C6_AddResult ==
  [][last'.op \in AddOps =>
       last'.err = ClaimedAddResult(last'.name, GivenToAdd(last'))]_vars

\* Add("A", "${A}${1}") returned SelfReference: the first reference is the
\* rule itself, a later one is no identifier
C6_Witness ==
  /\ last.op = "Add"
  /\ last.err = "SelfReference"
  /\ \E i \in 1..Len(findSubrules(last.pattern)) :
       ~isValid(findSubrules(last.pattern)[i])

\* C7: a call of Add or AddVerbatim that returns an error changes neither the
\* rules (the set, each rule's pattern, subrules, expanded text and compiled
\* form) nor the compiled flag.
C7_FailedAddChangesNothing ==
  [][(last'.op \in AddOps /\ last'.err # "nil") =>
       (rules' = rules /\ compiled' = compiled)]_vars

\* a second Add of a stored name, with another pattern, returned
\* DuplicateName, and the rule has the pattern of the first Add
C7_Witness ==
  /\ last.op \in AddOps
  /\ last.err = "DuplicateName"
  /\ rules[last.name].pattern # GivenToAdd(last)

\* C8: once Compile has returned success, the grammar stays compiled, every
\* step leaves the rules as they are, every Add/AddVerbatim with a valid name
\* and every Compile returns the already-compiled error.
C8_CompiledIsAbsorbing ==
  [][("nil" \in history) =>
       /\ compiled /\ compiled'
       /\ rules' = rules
       /\ (last'.op \in AddOps /\ isValid(last'.name)) =>
            last'.err = "AlreadyCompiled"
       /\ last'.op = "Compile" => last'.err = "AlreadyCompiled"]_vars

\* after a successful Compile of a grammar with rules, a further Compile and
\* then an AddVerbatim of a name not stored were both refused
C8_Witness ==
  /\ "AlreadyCompiled" \in history
  /\ last.op = "AddVerbatim"
  /\ last.err = "AlreadyCompiled"
  /\ last.name \notin DOMAIN rules
  /\ DOMAIN rules # {}

\* C9, as claimed: a call of Compile after any earlier call of Compile on the
\* grammar returns the already-compiled error, whatever the earlier call
\* returned.
C9_SecondCompileRefused ==
  [][(pc = "idle" /\ last'.op = "Compile" /\ history # {}) =>
       last'.err = "AlreadyCompiled"]_vars

\* C9, amended: a call of Compile returns the already-compiled error exactly
\* if an earlier call of Compile on the grammar returned success.
C9_RefusedIffSucceeded ==
  [][(pc = "idle" /\ last'.op = "Compile") =>
       ((last'.err = "AlreadyCompiled") <=> ("nil" \in history))]_vars

\* Compile failed, later succeeded, and was refused after that
C9_Witness ==
  /\ {"MissingRule", "nil", "AlreadyCompiled"} \subseteq history
  /\ last.op = "Compile"
  /\ last.err = "AlreadyCompiled"

\* C10: after a call of Compile has returned a pattern syntax error or a
\* cyclic dependency error, the grammar is never compiled and Rx never
\* returns a pattern.
C10_FailedStaysUncompiled ==
  (history \cap {"PatternSyntaxError", "CyclicDependency"} # {}) =>
    (~compiled /\ ~(last.op = "Rx" /\ last.err = "nil"))

\* Compile returned a pattern syntax error, rules were added, a later Compile
\* returned a cyclic dependency error (a cycle, once there, stays), and Rx of a
\* stored rule reports that the grammar is not compiled
C10_Witness ==
  /\ {"PatternSyntaxError", "CyclicDependency"} \subseteq history
  /\ last.op = "Rx"
  /\ last.err = "NotCompiled"

\* C11: Rx(name) returns the unknown-rule error if name is no stored rule
\* (compiled or not), else the not-compiled error if no Compile has succeeded,
\* else the rule's compiled pattern, which is not nil and is the regexp of the
\* rule's expanded text; so while Compile has only failed, Rx returns an error
\* for every name.
C11_RxResult ==
  [][last'.op = "Rx" =>
       /\ last'.name \notin DOMAIN rules =>
            (last'.err = "UnknownRule" /\ last'.ret.isNil)
       /\ (last'.name \in DOMAIN rules /\ "nil" \notin history) =>
            (last'.err = "NotCompiled" /\ last'.ret.isNil)
       /\ (last'.name \in DOMAIN rules /\ "nil" \in history) =>
            /\ last'.err = "nil"
            /\ ~last'.ret.isNil
            /\ last'.ret = rules[last'.name].rx
            /\ last'.ret.src = rules[last'.name].final
       /\ (history # {} /\ "nil" \notin history) => last'.err # "nil"]_vars

\* a Compile was stopped by a pattern syntax error after it had compiled
\* another rule; Rx of that rule returned the not-compiled error
C11_Witness ==
  /\ "PatternSyntaxError" \in history
  /\ last.op = "Rx"
  /\ last.err = "NotCompiled"
  /\ ~rules[last.name].rx.isNil

\* C12: between the calls, every stored rule has a compiled form exactly if
\* the grammar is compiled, and while the grammar is not compiled (also after
\* a Compile that failed part-way) no rule has a compiled form or an expanded
\* text.
C12_RxIffCompiled ==
  pc = "idle" =>
    /\ \A n \in DOMAIN rules : ~rules[n].rx.isNil <=> compiled
    /\ ~compiled => NothingCompiled

\* what C13 says of a step in which Compile returns from its loop over
\* sorted (every reference resolves and the graph has no cycle): the error is
\* the pattern syntax error exactly if some rule has an expanded text that
\* regexp.Compile rejects; the error names the rule at which the loop
\* stopped, whose text is rejected; no rule later in sorted has an expanded
\* text or a compiled form; the grammar is not compiled
StopsAtFirstRejected ==
  /\ (last'.err = "PatternSyntaxError") <=>
       (\E n \in DOMAIN rules : ~RegexpCompiles(rules'[n].final))
  /\ last'.err = "PatternSyntaxError" =>
       /\ last'.about = <<sorted[idx]>>
       /\ ~RegexpCompiles(rules'[sorted[idx]].final)
       /\ \A j \in (idx + 1)..Len(sorted) :
            rules'[sorted[j]].final = <<>> /\ rules'[sorted[j]].rx.isNil
       /\ ~compiled'

\* C13: when all references resolve and the graph is acyclic, Compile fails
\* with the pattern syntax error exactly if the expanded text of some rule is
\* rejected by the regexp engine; it stops at the first rejected rule of the
\* order (no later rule is interpolated or compiled), the error names that
\* rule, and the grammar is not compiled.
C13_SyntaxErrorAtFirstRejected ==
  [][(pc = "compile" /\ pc' = "idle") => StopsAtFirstRejected]_vars

\* C13 for the first Compile of a grammar
C13_FirstCompile ==
  [][(pc = "compile" /\ pc' = "idle" /\ history = {}) =>
       StopsAtFirstRejected]_vars

\* C14: Trim is idempotent: what Trim returns for a text x, Trim returns for
\* Trim(x) too, also when deleting the whitespace of x has made a new //.
C14_TrimIdempotent ==
  last.op = "Trim" => Trim(last.ret) = last.ret

\* C15: Rx writes no field of the grammar or of a rule: a call by the
\* goroutine that builds the grammar, in whatever state, and every step of a
\* call by one of the goroutines that call Rx concurrently after Compile has
\* succeeded, leave the rules and the compiled flag as they are; and each
\* such call returns what Rx returns when it runs alone in that state, the
\* compiled pattern of a stored rule.
C15_RxWritesNothing ==
  [][/\ (last'.op = "Rx" \/ threads' # threads) =>
          (rules' = rules /\ compiled' = compiled)
     /\ \A t \in Threads :
          (threads[t].pc # "idle" /\ threads'[t].pc = "idle") =>
            /\ threads'[t].call = RxReturns(threads[t].call.name)
            /\ threads[t].call.name \in DOMAIN rules =>
                 ~threads'[t].call.ret.isNil]_vars

\* both goroutines are in a call of Rx for the same stored rule: one has
\* returned its pattern while the other was between its reads, about to read
\* r.rx
C15_Witness ==
  /\ threads["t1"].pc = "idle"
  /\ threads["t1"].call.err = "nil"
  /\ ~threads["t1"].call.ret.isNil
  /\ threads["t2"].pc = "return"
  /\ threads["t2"].call.name = threads["t1"].call.name

\* the expanded text of rule n when every range over a replace map yields its
\* keys in one fixed order (for a grammar without missing subrules and
\* without cycles)
RECURSIVE FixedOrderFinal(_)
FixedOrderFinal(n) ==
  replaceSubrules(rules[n].pattern,
                  [k \in Refs(n) |-> FixedOrderFinal(k)],
                  CHOOSE order \in Orders(Refs(n)) : TRUE, 1)

\* what Compile returns for the stored rules in the run with that fixed order
FixedOrderResult ==
  IF missingSubrule THEN "MissingRule"
  ELSE IF HasCycle THEN "CyclicDependency"
  ELSE IF \E n \in DOMAIN rules : ~RegexpCompiles(FixedOrderFinal(n))
  THEN "PatternSyntaxError"
  ELSE "nil"

\* C16: what the first Compile of a grammar returns (success, or which kind
\* of error) and, on success, the expanded text of every rule depend only on
\* the stored rules: they are those of the run in which the maps are ranged
\* over in one fixed order, whatever order toposort and rule.compile get from
\* their maps and in whatever order the rules were added.
C16_ResultIndependentOfOrder ==
  [][(history = {} /\ history' # {}) =>
       /\ last'.err = FixedOrderResult
       /\ last'.err = "nil" =>
            \A n \in DOMAIN rules : rules'[n].final = FixedOrderFinal(n)]_vars

\* the part of C16 on success and the kind of error
C16_ErrorIndependentOfOrder ==
  [][(history = {} /\ history' # {}) => last'.err = FixedOrderResult]_vars

\* what AddVerbatim(name, text) returns, and the rules after it
AddVerbatimResult(name, text) ==
  [err |-> addError(name, text),
   rules |-> IF addError(name, text) = "nil"
             THEN (name :> newRule(name, text)) @@ rules
             ELSE rules]

\* C17: a successful Add(name, p) stores the rule name with the pattern
\* Trim(p), a successful AddVerbatim(name, p) with the pattern p, and
\* Add(name, p) returns and stores what AddVerbatim(name, Trim(p)) does; no
\* step changes the name, the pattern or the subrule list of a stored rule;
\* and once the grammar is compiled, the expanded text of a rule without
\* placeholders is its pattern.
C17_PatternStoredAndKept ==
  [][/\ (last'.op \in AddOps /\ last'.err = "nil") =>
          /\ DOMAIN rules' = DOMAIN rules \cup {last'.name}
          /\ rules'[last'.name].name = last'.name
          /\ rules'[last'.name].pattern =
               (IF last'.op = "Add" THEN Trim(last'.pattern) ELSE last'.pattern)
          /\ rules'[last'.name].subrules =
               findSubrules(rules'[last'.name].pattern)
     /\ last'.op = "Add" =>
          /\ last'.err = AddVerbatimResult(last'.name, Trim(last'.pattern)).err
          /\ rules' = AddVerbatimResult(last'.name, Trim(last'.pattern)).rules
     /\ \A n \in DOMAIN rules :
          /\ n \in DOMAIN rules'
          /\ rules'[n].name = rules[n].name
          /\ rules'[n].pattern = rules[n].pattern
          /\ rules'[n].subrules = rules[n].subrules
     /\ compiled' =>
          \A n \in DOMAIN rules' :
            rules'[n].subrules = <<>> => rules'[n].final = rules'[n].pattern]_vars

\* Add was given a text with whitespace and a comment and stored the trimmed
\* text, beside a rule stored by AddVerbatim with its whitespace and comment
C17_Witness ==
  /\ last.op = "Add"
  /\ last.err = "nil"
  /\ rules[last.name].pattern # last.pattern
  /\ rules[last.name].pattern = Trim(last.pattern)
  /\ \E m \in DOMAIN rules : rules[m].pattern # Trim(rules[m].pattern)

\* C18: no stored rule has its own name among its subrules, and the name of
\* every stored rule and every name in its subrule list is an identifier; a
\* pattern with the placeholder ${X} given to Add or AddVerbatim under the
\* name X is rejected by that call.
C18_NoSelfReference ==
  /\ \A n \in DOMAIN rules :
       /\ rules[n].name = n
       /\ isValid(n)
       /\ \A i \in 1..Len(rules[n].subrules) :
            isValid(rules[n].subrules[i]) /\ rules[n].subrules[i] # n
  /\ (last.op \in AddOps /\ last.name \in Range(findSubrules(GivenToAdd(last)))) =>
       last.err # "nil"

\* AddVerbatim of a rule that references itself was refused with the
\* self-reference error, and the rule is not stored beside the others
C18_Witness ==
  /\ last.op = "AddVerbatim"
  /\ last.err = "SelfReference"
  /\ last.name \notin DOMAIN rules
  /\ DOMAIN rules # {}

\* C19: when the grammar is compiled, every subrule referenced by a stored
\* rule is a stored rule, the graph rule -> subrule has no cycle, and every
\* stored rule, referenced by another or not, has its expanded text (its
\* pattern with the expanded texts of its subrules put in) and a compiled
\* pattern that is not nil and was compiled from that text.
C19_CompiledGrammar ==
  compiled =>
    /\ ~missingSubrule
    /\ ~HasCycle
    /\ \A n \in DOMAIN rules :
         /\ ~rules[n].rx.isNil
         /\ rules[n].rx.src = rules[n].final
         /\ \E order \in Orders(Refs(n)) :
              rules[n].final =
                replaceSubrules(rules[n].pattern,
                                [k \in Refs(n) |-> rules[k].final], order, 1)

\* a compiled grammar of three rules: one that references another, and one
\* that neither references a rule nor is referenced by one
C19_Witness ==
  /\ compiled
  /\ Cardinality(DOMAIN rules) = 3
  /\ \E n \in DOMAIN rules : Refs(n) # {}
  /\ \E n \in DOMAIN rules :
       Refs(n) = {} /\ \A m \in DOMAIN rules : n \notin Refs(m)

\* rule n is on a cycle of the graph rule -> subrule
OnCycle(n) == n \in Reachable(n)

\* rule n is on a cycle or references, directly or through other rules, a
\* rule on a cycle
ReachesCycle(n) ==
  OnCycle(n) \/ \E m \in Reachable(n) \cap DOMAIN rules : OnCycle(m)

\* C20: the rule names that the cyclic dependency error of toposort carries
\* are, each once, exactly the stored rules that are on a cycle or reference
\* a rule on a cycle through one reference or more: every rule of every cycle
\* is among them, and no rule whose references lead to no cycle (such as a
\* rule that a rule of a cycle merely depends on).
C20_RemainingRules ==
  (CompileReturned /\ last.err = "CyclicDependency") =>
    /\ Range(last.about) = {n \in DOMAIN rules : ReachesCycle(n)}
    /\ Len(last.about) = Cardinality(Range(last.about))

\* the error carries two of three rules: the third is a rule that a rule of
\* the cycle depends on
C20_Witness ==
  /\ CompileReturned
  /\ last.err = "CyclicDependency"
  /\ Cardinality(DOMAIN rules) = 3
  /\ Len(last.about) = 2
  /\ \E n \in Range(last.about) : Refs(n) \ Range(last.about) # {}

\* the error carries three rules, one of which is on no cycle: it
\* references the rules of the cycle
C20_ReferencingRuleReported ==
  /\ CompileReturned
  /\ last.err = "CyclicDependency"
  /\ \E n \in Range(last.about) : ~OnCycle(n)

\* C22: in no sequence of calls is rule.compile called for a rule that has a
\* compiled form already: no call of Compile, also none after a Compile that
\* failed with the pattern syntax error, ends in the panic "logic error,
\* rule is already compiled".
C22_NeverPanics ==
  "panic" \notin history

\* C21: toposort, and with it Compile, terminates. Each iteration of
\* toposort's loop that finds nodes left in dag returns the cyclic
\* dependency error or takes at least one node out of dag and into result;
\* there are at most as many such iterations as there are rules; the order
\* toposort returns holds every rule once; a toposort that has begun ends
\* with an order or with the error, and a Compile that has begun returns.
C21_ToposortTerminates ==
  /\ [][(pc = "toposort" /\ DOMAIN dag # {}) =>
          \/ /\ pc' = "idle"
             /\ last'.err = "CyclicDependency"
             /\ rounds + 1 <= Cardinality(DOMAIN rules)
          \/ /\ pc' = "toposort"
             /\ Cardinality(DOMAIN dag') < Cardinality(DOMAIN dag)
             /\ Len(result') > Len(result)
             /\ rounds' = rounds + 1]_vars
  /\ [][(pc = "toposort" /\ pc' = "compile") =>
          /\ Range(sorted') = DOMAIN rules
          /\ Len(sorted') = Cardinality(DOMAIN rules)]_vars
  /\ [](pc = "toposort" => rounds <= Cardinality(DOMAIN rules))
  /\ (pc = "toposort") ~>
       (pc = "compile" \/ (pc = "idle" /\ last.err = "CyclicDependency"))
  /\ (pc # "idle") ~> (pc = "idle")

\* toposort has taken three rules out of dag in three iterations, one rule
\* each, and is about to return the order
C21_Witness ==
  /\ pc = "toposort"
  /\ DOMAIN dag = {}
  /\ rounds = 3
  /\ Len(result) = 3

====
